---- MODULE Spec2Model ----
(***************************************************************************)
(* State machine of the App component of FRONTEND/src/App.tsx: the batch   *)
(* queue, the sequential processBatch sweep, the preview loads, the mode   *)
(* toggle, the single image handlers, the analysis history and the         *)
(* normalization of a response.                                            *)
(*                                                                         *)
(* BatchItem objects are shared by reference between the array versions    *)
(* that setBatchItems produces ([...prev] is a shallow copy and the        *)
(* updaters assign to updated[i].status in place), so the model keeps a    *)
(* heap of BatchItem objects and lets batchItems, and the batchItems array *)
(* a processBatch call closed over, be sequences of references into it.    *)
(***************************************************************************)
EXTENDS Integers, Sequences, FiniteSets, TLC

VARIABLES
    selectedImage,      \* useState<File | null>: <<>> or <<file>>
    imagePreview,       \* useState<string | null>: <<>> or <<preview>>
    isLoading,          \* useState(false)
    result,             \* useState<DetectionResult | null>: <<>> or <<r>>
    error,              \* useState<string | null>
    analysisHistory,    \* useState<DetectionResult[]>
    batchMode,          \* useState(false)
    batchItems,         \* useState<BatchItem[]>: references into heap
    isBatchProcessing,  \* useState(false)
    heap,               \* the BatchItem objects ever created, by reference
    runs,               \* the processBatch calls that have not returned
    loads,              \* files whose FileReader has not fired onload yet
    sent,               \* files of the POST /api/detect requests, in order
    mounted,            \* FALSE once a state updater has thrown
    singleFiles,        \* the File objects that handleImageSelect accepted
    reads,              \* their FileReaders that have not fired onload yet
    analysis,           \* the analyzeImage call that has not returned
    data,               \* a parsed response body: <<>> or <<data>>
    derived,            \* what the analyzer derives from it: <<>> or <<r>>
    download,           \* the document of the last export: <<>> or <<text>>
    lastOp              \* the handler or callback that ran last

vars == <<selectedImage, imagePreview, isLoading, result, error,
          analysisHistory, batchMode, batchItems, isBatchProcessing,
          heap, runs, loads, sent, mounted, singleFiles, reads, analysis,
          data, derived, download, lastOp>>

single == <<selectedImage, imagePreview, isLoading, result, singleFiles,
            reads, analysis>>

----------------------------------------------------------------------------
(* Bounds of the model *)

\* File objects (and so BatchItem objects) created in one behaviour.
MaxFiles == 4

\* Files of one selection (one drop or one file-input change).
MaxSelect == 2

\* File objects that single mode accepts, and requests that it sends, in
\* one behaviour.
MaxSingleFiles == 2
MaxRequests == 2

\* The bounds of the specification that has both modes: File objects of
\* each mode, requests of single mode and files of one selection.
MaxBothFiles == 1
MaxBothRequests == 1
MaxBothSelect == 1

\* The same two bounds of the specification of the admissions, which offers
\* longer selections to a shorter queue.
MaxAdmitFiles == 2
MaxAdmitSelect == 3

----------------------------------------------------------------------------
(* Values *)

NULL == "null"

\* 10 * 1024 * 1024
MaxSize == 10485760

Types == {"image/png", "text/plain"}
Sizes == {MaxSize, MaxSize + 1}

\* What the user can select: a File's type and size.  Every File object has
\* a name of its own, FileName of its identity.
FileDesc == [type : Types, size : Sizes]

FileName(id) == ToString(id) \o ".png"

Selections == UNION {[1..n -> FileDesc] : n \in 1..MaxSelect}

BothSelections == UNION {[1..n -> FileDesc] : n \in 1..MaxBothSelect}

\* The files of the admission claims: two files that pass the check and
\* differ in size, one that is too large and one that is no image.
AdmitDesc ==
    {[type |-> "image/png", size |-> 1],
     [type |-> "image/png", size |-> MaxSize],
     [type |-> "image/png", size |-> MaxSize + 1],
     [type |-> "text/plain", size |-> 1]}

AdmitSelections == UNION {[1..n -> AdmitDesc] : n \in 1..MaxAdmitSelect}

\* Outcomes of fetch + response.json().
Responses == {"ok", "http500", "netfail"}

MsgNoValid == "No valid images selected. Please ensure files are images under 10MB."
MsgNotImage == "Please select a valid image file (JPG, PNG, GIF, etc.)"
MsgTooLarge == "Image size must be less than 10MB"

\* err.message of the Error that the try block caught.
ErrMessage(resp) ==
    IF resp = "http500" THEN "Server error: 500" ELSE "Failed to fetch"

\* readAsDataURL(file): the data URL of the content of the file object.
\* A preview is 0 for '' and otherwise the identity of the file it encodes.
DataURL(file) == file.id

NoPreview == 0

----------------------------------------------------------------------------
(* Pure helpers *)

\* StartsWithImage taking every media type for an image type.
StartsWithAnything(type) == TRUE

StartsWithImage(type) == type = "image/png"

\* IsValidFile turning away a file of exactly the largest size as well.
IsValidFileBelowMax(file) ==
    /\ StartsWithImage(file.type)
    /\ ~(file.size >= MaxSize)

\* The callback of files.filter in handleBatchSelect.
IsValidFile(file) ==
    /\ StartsWithImage(file.type)
    /\ ~(file.size > MaxSize)

\* ValidFiles with the files that pass in the reverse of the selection order.
ValidFilesReversed(files) ==
    LET v == SelectSeq(files, IsValidFile)
    IN  [k \in 1..Len(v) |-> v[Len(v) + 1 - k]]

\* files.filter(...) of handleBatchSelect.
ValidFiles(files) == SelectSeq(files, IsValidFile)

\* RemoveAt with the test on the position after the one asked for.
RemoveAtNext(s, index) ==
    [k \in 1..(Len(s) - 1) |-> IF k <= index THEN s[k] ELSE s[k + 1]]

\* prev.filter((_, i) => i !== index), index counted from 1.
RemoveAt(s, index) ==
    [k \in 1..(Len(s) - 1) |-> IF k < index THEN s[k] ELSE s[k + 1]]

\* validFiles.map(file => ({file, preview: '', status: 'pending'})) for the
\* k-th valid file, whose File object gets the next free identity.
NewBatchItem(desc, id) ==
    [file    |-> [id |-> id, name |-> FileName(id), type |-> desc.type,
                  size |-> desc.size],
     preview |-> NoPreview,
     status  |-> "pending",
     result  |-> <<>>,
     error   |-> NULL]

\* The DetectionResult built from a parsed response for item.
NewResult(item) ==
    [imageName    |-> item.file.name,
     imagePreview |-> item.preview,
     file         |-> item.file.id]

\* NextPending without the status test of line 163.
NextPendingAnyStatus(items, from) ==
    IF from > Len(items) THEN 0 ELSE from

\* The first index j >= from of the closed-over array whose item is pending,
\* or 0 when the for loop runs off the end: the `continue` of line 163.
RECURSIVE NextPending(_, _)
NextPending(items, from) ==
    IF from > Len(items) THEN 0
    ELSE IF heap[items[from]].status = "pending" THEN from
    ELSE NextPending(items, from + 1)

\* The record of a handler run: its name and what it was for (the item
\* removed, the file loaded, the outcome of the request).
Op(name, arg) == [name |-> name, arg |-> arg]

----------------------------------------------------------------------------
\* The state of the component after its first render.
InitApp ==
    /\ selectedImage = <<>>
    /\ imagePreview = <<>>
    /\ isLoading = FALSE
    /\ result = <<>>
    /\ error = NULL
    /\ analysisHistory = <<>>
    /\ batchMode = FALSE
    /\ batchItems = <<>>
    /\ isBatchProcessing = FALSE
    /\ heap = <<>>
    /\ runs = <<>>
    /\ loads = {}
    /\ sent = <<>>
    /\ mounted = TRUE
    /\ singleFiles = <<>>
    /\ reads = {}
    /\ analysis = <<>>
    /\ lastOp = Op("init", 0)

Init == InitApp /\ data = <<>> /\ derived = <<>> /\ download = <<>>

----------------------------------------------------------------------------
(* Batch queue handlers *)

\* HandleBatchSelectOp reporting the error as soon as one file is dropped.
HandleBatchSelectOpAnyDropped(files, limit, arg) ==
    LET validFiles == ValidFiles(files)
        n == Len(heap)
        newBatchItems == [k \in 1..Len(validFiles) |->
                             NewBatchItem(validFiles[k], n + k)]
        newRefs == [k \in 1..Len(validFiles) |-> n + k]
    IN  /\ mounted
        /\ UNCHANGED <<data, derived, download>>
        /\ lastOp' = Op(IF Len(validFiles) = 0 THEN "reject" ELSE "admit", arg)
        /\ batchMode
        /\ n + Len(validFiles) <= limit
        /\ heap' = heap \o newBatchItems
        /\ loads' = loads \cup {newRefs[k] : k \in 1..Len(newRefs)}
        /\ batchItems' = batchItems \o newRefs
        /\ error' = IF Len(validFiles) < Len(files) THEN MsgNoValid ELSE NULL
        /\ UNCHANGED <<single, analysisHistory, batchMode, isBatchProcessing,
                       runs, sent, mounted>>

\* handleBatchSelect(files), reached from handleDrop in batch mode and from
\* handleBatchFileInput; both pass a non-empty list.  limit bounds the File
\* objects of a behaviour and arg is what lastOp keeps of the call.
HandleBatchSelectOp(files, limit, arg) ==
    LET validFiles == ValidFiles(files)
        n == Len(heap)
        newBatchItems == [k \in 1..Len(validFiles) |->
                             NewBatchItem(validFiles[k], n + k)]
        newRefs == [k \in 1..Len(validFiles) |-> n + k]
    IN  /\ mounted
        /\ UNCHANGED <<data, derived, download>>
        /\ lastOp' = Op(IF Len(validFiles) = 0 THEN "reject" ELSE "admit", arg)
        /\ batchMode
        /\ n + Len(validFiles) <= limit
        /\ IF Len(validFiles) = 0
           THEN /\ error' = MsgNoValid
                /\ UNCHANGED <<heap, batchItems, loads>>
           ELSE /\ heap' = heap \o newBatchItems
                /\ loads' = loads \cup {newRefs[k] : k \in 1..Len(newRefs)}
                /\ batchItems' = batchItems \o newRefs
                /\ error' = NULL
        /\ UNCHANGED <<single, analysisHistory, batchMode, isBatchProcessing,
                       runs, sent, mounted>>

HandleBatchSelectUpTo(files, limit) == HandleBatchSelectOp(files, limit, 0)

HandleBatchSelect(files) == HandleBatchSelectUpTo(files, MaxFiles)

\* FindIndex answering with the front of the queue whenever the file is in
\* the queue.
FindIndexFront(prev, fileId) ==
    IF \E k \in 1..Len(prev) : heap[prev[k]].file.id = fileId THEN 1 ELSE 0

\* prev.findIndex(p => p.file === item.file), counted from 1; 0 for -1.
FindIndex(prev, fileId) ==
    IF \E k \in 1..Len(prev) : heap[prev[k]].file.id = fileId
    THEN CHOOSE k \in 1..Len(prev) :
             /\ heap[prev[k]].file.id = fileId
             /\ \A m \in 1..(k - 1) : heap[prev[m]].file.id # fileId
    ELSE 0

\* reader.onload of the FileReader that handleBatchSelect started for item.
BatchPreviewLoaded(fileId) ==
    LET itemIndex == FindIndex(batchItems, fileId)
    IN  /\ mounted
        /\ UNCHANGED <<data, derived, download>>
        /\ lastOp' = Op("preview", fileId)
        /\ fileId \in loads
        /\ loads' = loads \ {fileId}
        /\ heap' = IF itemIndex # 0
                   THEN [heap EXCEPT ![batchItems[itemIndex]].preview =
                                         DataURL(heap[fileId].file)]
                   ELSE heap
        /\ UNCHANGED <<single, error, analysisHistory, batchMode, batchItems,
                       isBatchProcessing, runs, sent, mounted>>

\* RemoveEnabled with the button rendered for an item of any status.
RemoveEnabledAnyStatus(index) ==
    /\ batchMode
    /\ index \in 1..Len(batchItems)
    /\ ~isBatchProcessing

\* The remove button of a queue card is rendered for a pending item only and
\* is disabled while isBatchProcessing.
RemoveEnabled(index) ==
    /\ batchMode
    /\ index \in 1..Len(batchItems)
    /\ heap[batchItems[index]].status = "pending"
    /\ ~isBatchProcessing

RemoveBatchItem(index) ==
    /\ mounted
    /\ UNCHANGED <<data, derived, download>>
    /\ lastOp' = Op("remove", batchItems[index])
    /\ RemoveEnabled(index)
    /\ batchItems' = RemoveAt(batchItems, index)
    /\ UNCHANGED <<single, error, analysisHistory, batchMode,
                   isBatchProcessing, heap, runs, loads, sent, mounted>>

\* The Clear All button is rendered with the queue and is disabled while
\* isBatchProcessing.
ClearEnabled ==
    /\ batchMode
    /\ Len(batchItems) > 0
    /\ ~isBatchProcessing

ClearBatchItems ==
    /\ mounted
    /\ UNCHANGED <<data, derived, download>>
    /\ lastOp' = Op("clear", 0)
    /\ ClearEnabled
    /\ batchItems' = <<>>
    /\ error' = NULL
    /\ UNCHANGED <<single, analysisHistory, batchMode, isBatchProcessing,
                   heap, runs, loads, sent, mounted>>

\* The queue that toggleBatchMode leaves.
ToggledItems == IF ~batchMode THEN <<>> ELSE batchItems

ToggleBatchMode ==
    /\ mounted
    /\ UNCHANGED <<data, derived, download>>
    /\ lastOp' = Op("toggle", 0)
    /\ batchMode' = ~batchMode
    /\ selectedImage' = <<>>
    /\ imagePreview' = <<>>
    /\ result' = <<>>
    /\ error' = NULL
    /\ batchItems' = ToggledItems
    /\ UNCHANGED <<isLoading, analysisHistory, isBatchProcessing, heap, runs,
                   loads, sent, mounted, singleFiles, reads, analysis>>

----------------------------------------------------------------------------
(* Single image handlers *)

\* !imagePreview: null and '' are falsy.
Falsy(preview) == preview = <<>> \/ preview = <<NoPreview>>

\* The File object that the k-th accepted single selection brings; the File
\* objects of single mode are numbered downwards from -1.
SingleFile(desc, k) ==
    [id |-> 0 - k, name |-> FileName(0 - k), type |-> desc.type,
     size |-> desc.size]

\* HandleImageSelectUpTo dropping the selected image when the file is too
\* large.
HandleImageSelectUpToResetting(desc, limit) ==
    LET file == SingleFile(desc, Len(singleFiles) + 1)
    IN  /\ mounted
        /\ ~batchMode
        /\ Falsy(imagePreview)
        /\ UNCHANGED <<data, derived, download>>
        /\ lastOp' = Op("select", desc)
        /\ IF ~StartsWithImage(desc.type)
           THEN /\ error' = MsgNotImage
                /\ UNCHANGED <<selectedImage, result, singleFiles, reads>>
           ELSE IF desc.size > MaxSize
           THEN /\ error' = MsgTooLarge
                /\ selectedImage' = <<>>
                /\ UNCHANGED <<result, singleFiles, reads>>
           ELSE /\ Len(singleFiles) < limit
                /\ selectedImage' = <<file>>
                /\ error' = NULL
                /\ result' = <<>>
                /\ singleFiles' = Append(singleFiles, file)
                /\ reads' = reads \cup {file.id}
        /\ UNCHANGED <<imagePreview, isLoading, analysis, analysisHistory,
                       batchMode, batchItems, isBatchProcessing, heap, runs,
                       loads, sent, mounted>>

\* handleImageSelect(file), reached from handleDrop in single mode and from
\* handleFileInput with files[0]; the upload section is rendered only while
\* imagePreview is falsy.  limit bounds the File objects of a behaviour.
HandleImageSelectUpTo(desc, limit) ==
    LET file == SingleFile(desc, Len(singleFiles) + 1)
    IN  /\ mounted
        /\ ~batchMode
        /\ Falsy(imagePreview)
        /\ UNCHANGED <<data, derived, download>>
        /\ lastOp' = Op("select", desc)
        /\ IF ~StartsWithImage(desc.type)
           THEN /\ error' = MsgNotImage
                /\ UNCHANGED <<selectedImage, result, singleFiles, reads>>
           ELSE IF desc.size > MaxSize
           THEN /\ error' = MsgTooLarge
                /\ UNCHANGED <<selectedImage, result, singleFiles, reads>>
           ELSE /\ Len(singleFiles) < limit
                /\ selectedImage' = <<file>>
                /\ error' = NULL
                /\ result' = <<>>
                /\ singleFiles' = Append(singleFiles, file)
                /\ reads' = reads \cup {file.id}
        /\ UNCHANGED <<imagePreview, isLoading, analysis, analysisHistory,
                       batchMode, batchItems, isBatchProcessing, heap, runs,
                       loads, sent, mounted>>

HandleImageSelect(desc) == HandleImageSelectUpTo(desc, MaxSingleFiles)

\* reader.onload of the FileReader that handleImageSelect started.
ImagePreviewLoaded(fileId) ==
    /\ mounted
    /\ fileId \in reads
    /\ UNCHANGED <<data, derived, download>>
    /\ lastOp' = Op("read", fileId)
    /\ reads' = reads \ {fileId}
    /\ imagePreview' = <<DataURL(singleFiles[0 - fileId])>>
    /\ UNCHANGED <<selectedImage, isLoading, result, singleFiles, analysis,
                   error, analysisHistory, batchMode, batchItems,
                   isBatchProcessing, heap, runs, loads, sent, mounted>>

\* The DetectionResult that analyzeImage builds from a parsed response: the
\* name of the image and the preview of the render that the call closed over.
NewSingleResult(call) ==
    [imageName    |-> call.file.name,
     imagePreview |-> IF Falsy(call.preview) THEN NoPreview ELSE call.preview[1],
     file         |-> call.file.id]

\* analyzeImage up to its await: both buttons that call it are rendered in
\* the results section only and are disabled while isLoading.  limit bounds
\* the requests of a behaviour.
AnalyzeImageUpTo(limit) ==
    /\ mounted
    /\ ~batchMode
    /\ ~Falsy(imagePreview)
    /\ ~isLoading
    /\ UNCHANGED <<data, derived, download>>
    /\ lastOp' = Op("analyze", selectedImage)
    /\ IF selectedImage = <<>>
       THEN UNCHANGED <<isLoading, error, analysis, sent>>
       ELSE /\ Len(sent) < limit
            /\ isLoading' = TRUE
            /\ error' = NULL
            /\ analysis' = <<[file |-> selectedImage[1],
                              preview |-> imagePreview]>>
            /\ sent' = Append(sent, selectedImage[1].id)
    /\ UNCHANGED <<selectedImage, imagePreview, result, singleFiles, reads,
                   analysisHistory, batchMode, batchItems, isBatchProcessing,
                   heap, runs, loads, mounted>>

AnalyzeImage == AnalyzeImageUpTo(MaxRequests)

\* The rest of analyzeImage, from the settling of its fetch to the finally.
AnalyzeResponse(resp) ==
    /\ mounted
    /\ analysis # <<>>
    /\ UNCHANGED <<data, derived, download>>
    /\ lastOp' = Op("analyzed", resp)
    /\ analysis' = <<>>
    /\ isLoading' = FALSE
    /\ IF resp = "ok"
       THEN /\ result' = <<NewSingleResult(analysis[1])>>
            /\ analysisHistory' =
                   <<NewSingleResult(analysis[1])>> \o analysisHistory
            /\ error' = error
       ELSE /\ error' = ErrMessage(resp)
            /\ UNCHANGED <<result, analysisHistory>>
    /\ UNCHANGED <<selectedImage, imagePreview, singleFiles, reads, batchMode,
                   batchItems, isBatchProcessing, heap, runs, loads, sent,
                   mounted>>

\* clearImage: its button is in the results section.
ClearImage ==
    /\ mounted
    /\ ~batchMode
    /\ ~Falsy(imagePreview)
    /\ UNCHANGED <<data, derived, download>>
    /\ lastOp' = Op("clearImage", 0)
    /\ selectedImage' = <<>>
    /\ imagePreview' = <<>>
    /\ result' = <<>>
    /\ error' = NULL
    /\ UNCHANGED <<isLoading, singleFiles, reads, analysis, analysisHistory,
                   batchMode, batchItems, isBatchProcessing, heap, runs,
                   loads, sent, mounted>>

\* clearHistory: its button is in the history panel of a non-empty history.
ClearHistory ==
    /\ mounted
    /\ Len(analysisHistory) > 0
    /\ UNCHANGED <<data, derived, download>>
    /\ lastOp' = Op("clearHistory", 0)
    /\ analysisHistory' = <<>>
    /\ UNCHANGED <<single, error, batchMode, batchItems, isBatchProcessing,
                   heap, runs, loads, sent, mounted>>

\* loadHistoryItem(item) for the item at position index of the history panel.
LoadHistoryItem(index) ==
    /\ mounted
    /\ index \in 1..Len(analysisHistory)
    /\ UNCHANGED <<data, derived, download>>
    /\ lastOp' = Op("loadHistoryItem", index)
    /\ imagePreview' = <<analysisHistory[index].imagePreview>>
    /\ result' = <<analysisHistory[index]>>
    /\ batchMode' = FALSE
    /\ UNCHANGED <<selectedImage, isLoading, singleFiles, reads, analysis,
                   error, analysisHistory, batchItems, isBatchProcessing,
                   heap, runs, loads, sent, mounted>>

----------------------------------------------------------------------------
(* Normalization of a response *)

\* Numbers of a response are hundredths: 93 is 0.93 and 100 is 1.
Percents == {0, 7, 50, 60, 85, 86, 93}

\* An optional field is <<>> when the response has none (undefined or null)
\* and <<v>> otherwise.
Optional(S) == {<<>>} \cup {<<v>> : v \in S}

PredictionStrings == {"Real", "real", "REAL", "Fake"}

\* response.json(): prediction, confidence and probabilities are optional,
\* and so are fake and real of probabilities.
ResponseData ==
    [prediction    : Optional(PredictionStrings),
     confidence    : Optional(Percents),
     probabilities : Optional([fake : Optional(Percents),
                               real : Optional(Percents)])]

\* String.prototype.toLowerCase on the prediction strings.
ToLowerCase(str) ==
    CASE str = "Real" -> "real"
      [] str = "REAL" -> "real"
      [] str = "real" -> "real"
      [] str = "Fake" -> "fake"

\* data.probabilities?.fake and data.probabilities?.real
ProbabilityOf(d, class) ==
    IF d.probabilities = <<>> THEN <<>>
    ELSE IF class = "fake" THEN d.probabilities[1].fake
    ELSE d.probabilities[1].real

\* a ?? b on optional values, b being a value.
Coalesce(a, b) == IF a # <<>> THEN a[1] ELSE b

\* Normalize with the confidence, not its complement, as the fallback of
\* the fake probability.
NormalizeWithoutComplement(d) ==
    LET isReal == d.prediction # <<>> /\ ToLowerCase(d.prediction[1]) = "real"
        confidence == Coalesce(d.confidence,
                               Coalesce(ProbabilityOf(d, "real"), 50))
        fakeProb == Coalesce(ProbabilityOf(d, "fake"), confidence)
        realProb == Coalesce(ProbabilityOf(d, "real"), confidence)
        riskLevel == IF confidence > 85 THEN "low"
                     ELSE IF confidence > 60 THEN "medium"
                     ELSE "high"
    IN  [isReal        |-> isReal,
         confidence    |-> confidence,
         probabilities |-> [fake |-> fakeProb, real |-> realProb],
         riskLevel     |-> riskLevel]

\* Normalize with the two thresholds of the risk level included in the
\* upper tier.
NormalizeInclusive(d) ==
    LET isReal == d.prediction # <<>> /\ ToLowerCase(d.prediction[1]) = "real"
        confidence == Coalesce(d.confidence,
                               Coalesce(ProbabilityOf(d, "real"), 50))
        fakeProb == Coalesce(ProbabilityOf(d, "fake"), 100 - confidence)
        realProb == Coalesce(ProbabilityOf(d, "real"), confidence)
        riskLevel == IF confidence >= 85 THEN "low"
                     ELSE IF confidence >= 60 THEN "medium"
                     ELSE "high"
    IN  [isReal        |-> isReal,
         confidence    |-> confidence,
         probabilities |-> [fake |-> fakeProb, real |-> realProb],
         riskLevel     |-> riskLevel]

\* Lines 278-284 of analyzeImage: isReal, confidence, probabilities and
\* riskLevel of the new result.  In hundredths 1 - confidence is exact; in
\* the doubles of the program it is rounded, by at most 2^-54 for a
\* confidence in [0, 1], and its sum with the confidence still rounds to 1.
Normalize(d) ==
    LET isReal == d.prediction # <<>> /\ ToLowerCase(d.prediction[1]) = "real"
        confidence == Coalesce(d.confidence,
                               Coalesce(ProbabilityOf(d, "real"), 50))
        fakeProb == Coalesce(ProbabilityOf(d, "fake"), 100 - confidence)
        realProb == Coalesce(ProbabilityOf(d, "real"), confidence)
        riskLevel == IF confidence > 85 THEN "low"
                     ELSE IF confidence > 60 THEN "medium"
                     ELSE "high"
    IN  [isReal        |-> isReal,
         confidence    |-> confidence,
         probabilities |-> [fake |-> fakeProb, real |-> realProb],
         riskLevel     |-> riskLevel]

\* NormalizeBatch with 1, not 0.5, as the confidence of last resort.
NormalizeBatchDefaultOne(d) ==
    LET isReal == d.prediction # <<>> /\ ToLowerCase(d.prediction[1]) = "real"
        confidence == Coalesce(d.confidence,
                               Coalesce(ProbabilityOf(d, "real"), 100))
        fakeProb == Coalesce(ProbabilityOf(d, "fake"), 100 - confidence)
        realProb == Coalesce(ProbabilityOf(d, "real"), confidence)
        riskLevel == IF confidence > 85 THEN "low"
                     ELSE IF confidence > 60 THEN "medium"
                     ELSE "high"
    IN  [isReal        |-> isReal,
         confidence    |-> confidence,
         probabilities |-> [fake |-> fakeProb, real |-> realProb],
         riskLevel     |-> riskLevel]

\* Lines 185-191 of processBatch: the same fields for a batch entry.
NormalizeBatch(d) ==
    LET isReal == d.prediction # <<>> /\ ToLowerCase(d.prediction[1]) = "real"
        confidence == Coalesce(d.confidence,
                               Coalesce(ProbabilityOf(d, "real"), 50))
        fakeProb == Coalesce(ProbabilityOf(d, "fake"), 100 - confidence)
        realProb == Coalesce(ProbabilityOf(d, "real"), confidence)
        riskLevel == IF confidence > 85 THEN "low"
                     ELSE IF confidence > 60 THEN "medium"
                     ELSE "high"
    IN  [isReal        |-> isReal,
         confidence    |-> confidence,
         probabilities |-> [fake |-> fakeProb, real |-> realProb],
         riskLevel     |-> riskLevel]

\* processBatch derives the fields of the new result from the same response;
\* derived keeps what analyzeImage derived first and this second.
NormalizeBatchData ==
    /\ data # <<>>
    /\ Len(derived) = 1
    /\ derived' = Append(derived, NormalizeBatch(data[1]))
    /\ UNCHANGED <<single, error, analysisHistory, batchMode, batchItems,
                   isBatchProcessing, heap, runs, loads, sent, mounted, data,
                   download, lastOp>>

\* The analyzer derives the fields of the new result from the response.
NormalizeData ==
    /\ data # <<>>
    /\ derived = <<>>
    /\ derived' = <<Normalize(data[1])>>
    /\ UNCHANGED <<single, error, analysisHistory, batchMode, batchItems,
                   isBatchProcessing, heap, runs, loads, sent, mounted, data,
                   download, lastOp>>

----------------------------------------------------------------------------
(* processBatch *)

\* A processBatch call: the batchItems array of the render it was created
\* in, the loop index i (from 1) and where it is suspended.  start, marked
\* and fin record what the call has found and done: the items that were
\* pending when it began and the objects it has set to processing and to
\* completed or error.
NewRun ==
    [items  |-> batchItems,
     i      |-> 0,
     pc     |-> "loop",
     start  |-> {batchItems[k] : k \in {m \in 1..Len(batchItems) :
                                    heap[batchItems[m]].status = "pending"}},
     marked |-> <<>>,
     fin    |-> <<>>]

\* Loop returning without setIsBatchProcessing(false).
LoopKeepingFlag(rs, k, from, processing) ==
    LET items == rs[k].items
        j == NextPending(items, from)
    IN  IF j = 0
        THEN /\ runs' = RemoveAt(rs, k)
             /\ isBatchProcessing' = processing
             /\ UNCHANGED <<heap, sent, mounted>>
        ELSE /\ sent' = Append(sent, heap[items[j]].file.id)
             /\ isBatchProcessing' = processing
             /\ IF j <= Len(batchItems)
                THEN /\ heap' = [heap EXCEPT ![batchItems[j]].status = "processing"]
                     /\ runs' = [rs EXCEPT ![k].i = j, ![k].pc = "fetch",
                                    ![k].marked = Append(@, batchItems[j])]
                     /\ UNCHANGED mounted
                ELSE /\ mounted' = FALSE
                     /\ runs' = [rs EXCEPT ![k].i = j, ![k].pc = "fetch"]
                     /\ UNCHANGED heap

\* Loop posting the file of the item twice.
LoopSendingTwice(rs, k, from, processing) ==
    LET items == rs[k].items
        j == NextPending(items, from)
    IN  IF j = 0
        THEN /\ runs' = RemoveAt(rs, k)
             /\ isBatchProcessing' = FALSE
             /\ UNCHANGED <<heap, sent, mounted>>
        ELSE /\ sent' = sent \o <<heap[items[j]].file.id,
                                heap[items[j]].file.id>>
             /\ isBatchProcessing' = processing
             /\ IF j <= Len(batchItems)
                THEN /\ heap' = [heap EXCEPT ![batchItems[j]].status = "processing"]
                     /\ runs' = [rs EXCEPT ![k].i = j, ![k].pc = "fetch",
                                    ![k].marked = Append(@, batchItems[j])]
                     /\ UNCHANGED mounted
                ELSE /\ mounted' = FALSE
                     /\ runs' = [rs EXCEPT ![k].i = j, ![k].pc = "fetch"]
                     /\ UNCHANGED heap

\* The for loop of run k of rs from index `from` to its next await or to its
\* end; processing is isBatchProcessing as the call has left it so far.  The
\* updater of line 166 assigns to prev[i] of the current queue; on
\* a queue shorter than i it throws, React rethrows it while rendering and
\* unmounts the tree, and the request of line 176 has gone out by then.
Loop(rs, k, from, processing) ==
    LET items == rs[k].items
        j == NextPending(items, from)
    IN  IF j = 0
        THEN /\ runs' = RemoveAt(rs, k)
             /\ isBatchProcessing' = FALSE
             /\ UNCHANGED <<heap, sent, mounted>>
        ELSE /\ sent' = Append(sent, heap[items[j]].file.id)
             /\ isBatchProcessing' = processing
             /\ IF j <= Len(batchItems)
                THEN /\ heap' = [heap EXCEPT ![batchItems[j]].status = "processing"]
                     /\ runs' = [rs EXCEPT ![k].i = j, ![k].pc = "fetch",
                                    ![k].marked = Append(@, batchItems[j])]
                     /\ UNCHANGED mounted
                ELSE /\ mounted' = FALSE
                     /\ runs' = [rs EXCEPT ![k].i = j, ![k].pc = "fetch"]
                     /\ UNCHANGED heap

\* ProcessDisabled without the isBatchProcessing disjunct.
ProcessDisabledWhenIdleOnly ==
    \/ Len(batchItems) = 0
    \/ \A k \in 1..Len(batchItems) : heap[batchItems[k]].status # "pending"

\* disabled={...} of the Process All Images button, which is rendered with
\* the queue in batch mode.
ProcessDisabled ==
    \/ isBatchProcessing
    \/ Len(batchItems) = 0
    \/ \A k \in 1..Len(batchItems) : heap[batchItems[k]].status # "pending"

\* StartedFlag with setIsBatchProcessing(true) left out.
StartedFlagNotSet == isBatchProcessing

\* isBatchProcessing after setIsBatchProcessing(true) of line 158.
StartedFlag == TRUE

\* A click on Process All Images: processBatch up to its first await.
ProcessBatch ==
    /\ mounted
    /\ UNCHANGED <<data, derived, download>>
    /\ lastOp' = Op("processBatch", 0)
    /\ batchMode
    /\ Len(batchItems) > 0
    /\ ~ProcessDisabled
    /\ Len(batchItems) # 0
    /\ error' = NULL
    /\ Loop(Append(runs, NewRun), Len(runs) + 1, 1, StartedFlag)
    /\ UNCHANGED <<single, analysisHistory, batchMode, batchItems, loads>>

\* Response marking the entry completed without attaching the result.
ResponseWithoutResult(k, resp) ==
    LET run == runs[k]
        i == run.i
        item == heap[run.items[i]]
        newResult == NewResult(item)
    IN  /\ mounted
        /\ UNCHANGED <<data, derived, download>>
        /\ lastOp' = Op("response", resp)
        /\ run.pc = "fetch"
        /\ UNCHANGED <<single, error, batchMode, batchItems,
                       isBatchProcessing, loads, sent>>
        /\ IF i <= Len(batchItems)
           THEN /\ runs' = [runs EXCEPT ![k].pc = "delay",
                                ![k].fin = Append(@, batchItems[i])]
                /\ UNCHANGED mounted
                /\ IF resp = "ok"
                   THEN /\ heap' = [heap EXCEPT
                                       ![batchItems[i]].status = "completed"]
                        /\ analysisHistory' = <<newResult>> \o analysisHistory
                   ELSE /\ heap' = [heap EXCEPT
                                       ![batchItems[i]].status = "error",
                                       ![batchItems[i]].error = ErrMessage(resp)]
                        /\ UNCHANGED analysisHistory
           ELSE /\ mounted' = FALSE
                /\ UNCHANGED <<heap, runs, analysisHistory>>

\* The fetch of run k settles with resp: lines 181-231, up to the await of
\* the delay.  The updaters assign to prev[i] of the current queue.
Response(k, resp) ==
    LET run == runs[k]
        i == run.i
        item == heap[run.items[i]]
        newResult == NewResult(item)
    IN  /\ mounted
        /\ UNCHANGED <<data, derived, download>>
        /\ lastOp' = Op("response", resp)
        /\ run.pc = "fetch"
        /\ UNCHANGED <<single, error, batchMode, batchItems,
                       isBatchProcessing, loads, sent>>
        /\ IF i <= Len(batchItems)
           THEN /\ runs' = [runs EXCEPT ![k].pc = "delay",
                                ![k].fin = Append(@, batchItems[i])]
                /\ UNCHANGED mounted
                /\ IF resp = "ok"
                   THEN /\ heap' = [heap EXCEPT
                                       ![batchItems[i]].status = "completed",
                                       ![batchItems[i]].result = <<newResult>>]
                        /\ analysisHistory' = <<newResult>> \o analysisHistory
                   ELSE /\ heap' = [heap EXCEPT
                                       ![batchItems[i]].status = "error",
                                       ![batchItems[i]].error = ErrMessage(resp)]
                        /\ UNCHANGED analysisHistory
           ELSE /\ mounted' = FALSE
                /\ UNCHANGED <<heap, runs, analysisHistory>>

\* The 500 ms timer of line 234 fires: i++ and the loop goes on.
DelayElapsed(k) ==
    /\ mounted
    /\ UNCHANGED <<data, derived, download>>
    /\ lastOp' = Op("delay", 0)
    /\ runs[k].pc = "delay"
    /\ Loop(runs, k, runs[k].i + 1, isBatchProcessing)
    /\ UNCHANGED <<single, error, analysisHistory, batchMode, batchItems, loads>>

----------------------------------------------------------------------------
(* JSON export *)

\* JavaScript values, each with its type: undefined, null, booleans, numbers
\* (in hundredths), strings, Date objects (time in ms since the epoch),
\* arrays and plain objects (fields maps each own key to its value).
Undefined == [type |-> "undefined"]
Null == [type |-> "null"]
Bool(b) == [type |-> "boolean", value |-> b]
Num(n) == [type |-> "number", value |-> n]
Str(s) == [type |-> "string", value |-> s]
DateAt(ms) == [type |-> "date", time |-> ms]
Arr(items) == [type |-> "array", items |-> items]
Obj(fields) == [type |-> "object", fields |-> fields]

\* Date.prototype.toISOString for the dates of the first second of 1970.
ToISOString(date) ==
    LET ms == date.time
        digits == IF ms < 10 THEN "00" \o ToString(ms)
                  ELSE IF ms < 100 THEN "0" \o ToString(ms)
                  ELSE ToString(ms)
    IN  "1970-01-01T00:00:00." \o digits \o "Z"

\* The DetectionResult object the analyzers build.
DetectionResult(isReal, confidence, time, preview, name) ==
    Obj([isReal         |-> Bool(isReal),
         confidence     |-> Num(confidence),
         processingTime |-> Num(125),
         probabilities  |->
             Obj([fake |-> Num(IF isReal THEN 100 - confidence
                                         ELSE confidence),
                  real |-> Num(IF isReal THEN confidence
                                         ELSE 100 - confidence)]),
         details        |->
             Obj([model      |-> Str("Vision Transformer (Tiny)"),
                  techniques |-> Arr(<<Str("Self-Attention Mechanism"),
                                       Str("Patch Embedding"),
                                       Str("Multi-Head Attention"),
                                       Str("Position Encoding"),
                                       Str("Layer Normalization"),
                                       Str("Feed-Forward Neural Networks")>>),
                  riskLevel  |-> Str(IF confidence > 85 THEN "low"
                                     ELSE IF confidence > 60 THEN "medium"
                                     ELSE "high")]),
         timestamp      |-> DateAt(time),
         imageName      |-> Str(name),
         imagePreview   |-> preview])

\* An object literal { ...object, key: value, ... }: the own fields of
\* object, then the listed ones, a listed key replacing a spread one.
Spread(object, listed) ==
    Obj([key \in DOMAIN object.fields \cup DOMAIN listed |->
            IF key \in DOMAIN listed THEN listed[key]
            ELSE object.fields[key]])

\* ExportData leaving the preview in the exported object.
ExportDataWithPreview(r) ==
    Spread(r, [timestamp |-> Str(ToISOString(r.fields.timestamp))])

\* The object the three exports write for the result record r.
ExportData(r) ==
    Spread(r, [timestamp    |-> Str(ToISOString(r.fields.timestamp)),
               imagePreview |-> Undefined])

\* JSON.stringify(value, null, 2): the JSON text, as the tree of its
\* productions.  A member whose value is undefined is left out, an undefined
\* array element is written null and a Date is written as the string its
\* toJSON returns.
RECURSIVE Stringify(_)
Stringify(value) ==
    CASE value.type = "object" ->
           [json    |-> "object",
            members |-> [key \in {k \in DOMAIN value.fields :
                                     value.fields[k].type # "undefined"} |->
                            Stringify(value.fields[key])]]
      [] value.type = "array" ->
           [json     |-> "array",
            elements |-> [k \in 1..Len(value.items) |->
                             IF value.items[k].type = "undefined"
                             THEN [json |-> "null"]
                             ELSE Stringify(value.items[k])]]
      [] value.type = "date" ->
           [json |-> "string", chars |-> ToISOString(value)]
      [] value.type = "string" -> [json |-> "string", chars |-> value.value]
      [] value.type = "number" -> [json |-> "number", digits |-> value.value]
      [] value.type = "boolean" ->
           [json |-> IF value.value THEN "true" ELSE "false"]
      [] OTHER -> [json |-> "null"]

\* The items of the queue that have a result, in queue order.
WithResult ==
    SelectSeq(batchItems, LAMBDA ref : heap[ref].result # <<>>)

\* Export JSON of the result panel.
ExportAsJSON ==
    /\ mounted
    /\ result # <<>>
    /\ download' = <<Stringify(ExportData(result[1]))>>
    /\ lastOp' = Op("exportAsJSON", 0)
    /\ UNCHANGED <<single, error, analysisHistory, batchMode, batchItems,
                   isBatchProcessing, heap, runs, loads, sent, mounted, data,
                   derived>>

\* Export Results of the batch queue, shown once an item is completed.
ExportBatchResults ==
    LET results == [k \in 1..Len(WithResult) |->
                       ExportData(heap[WithResult[k]].result[1])]
    IN  /\ mounted
        /\ \E k \in 1..Len(batchItems) :
               heap[batchItems[k]].status = "completed"
        /\ download' = <<Stringify(Arr(results))>>
        /\ lastOp' = Op("exportBatchResults", 0)
        /\ UNCHANGED <<single, error, analysisHistory, batchMode,
                       batchItems, isBatchProcessing, heap, runs, loads,
                       sent, mounted, data, derived>>

\* Export of the history panel, shown while the history is not empty.
ExportHistoryAsJSON ==
    LET exportData == [k \in 1..Len(analysisHistory) |->
                          ExportData(analysisHistory[k])]
    IN  /\ mounted
        /\ analysisHistory # <<>>
        /\ download' = <<Stringify(Arr(exportData))>>
        /\ lastOp' = Op("exportHistoryAsJSON", 0)
        /\ UNCHANGED <<single, error, analysisHistory, batchMode,
                       batchItems, isBatchProcessing, heap, runs, loads,
                       sent, mounted, data, derived>>

----------------------------------------------------------------------------
(* Specifications *)

\* The batch pipeline.  The preview loads stay outstanding here: onload
\* writes the preview field only, which no guard and no branch reads.
Next ==
    \/ \E files \in Selections : HandleBatchSelect(files)
    \/ \E index \in 1..Len(batchItems) : RemoveBatchItem(index)
    \/ ClearBatchItems
    \/ ToggleBatchMode
    \/ ProcessBatch
    \/ \E k \in 1..Len(runs) : \E resp \in Responses : Response(k, resp)
    \/ \E k \in 1..Len(runs) : DelayElapsed(k)

Spec == Init /\ [][Next]_vars

\* The batch pipeline again, with the selections of the admission claims;
\* lastOp keeps the files that were offered.
AdmitNext ==
    \/ \E files \in AdmitSelections :
           HandleBatchSelectOp(files, MaxAdmitFiles, files)
    \/ ToggleBatchMode
    \/ ProcessBatch
    \/ \E k \in 1..Len(runs) : Response(k, "ok")
    \/ \E k \in 1..Len(runs) : DelayElapsed(k)

SpecAdmit == Init /\ [][AdmitNext]_vars

\* The normalization on its own, for every response body.
InitNormalize ==
    /\ InitApp
    /\ data \in {<<d>> : d \in ResponseData}
    /\ derived = <<>>
    /\ download = <<>>

NormalizeNext == NormalizeData \/ NormalizeBatchData

SpecNormalize == InitNormalize /\ [][NormalizeNext]_vars

\* Single mode, with the mode toggle and the history panel.
SingleNext ==
    \/ \E desc \in FileDesc : HandleImageSelect(desc)
    \/ \E fileId \in reads : ImagePreviewLoaded(fileId)
    \/ AnalyzeImage
    \/ \E resp \in Responses : AnalyzeResponse(resp)
    \/ ClearImage
    \/ ClearHistory
    \/ \E index \in 1..Len(analysisHistory) : LoadHistoryItem(index)
    \/ ToggleBatchMode

SpecSingle == Init /\ [][SingleNext]_vars

\* The batch queue with its preview loads, without runs.
PreviewNext ==
    \/ \E files \in Selections : HandleBatchSelect(files)
    \/ \E fileId \in loads : BatchPreviewLoaded(fileId)
    \/ \E index \in 1..Len(batchItems) : RemoveBatchItem(index)
    \/ ClearBatchItems
    \/ ToggleBatchMode

SpecPreview == Init /\ [][PreviewNext]_vars

\* Both modes side by side, each with few files; lastOp keeps the files that
\* were offered.
BothNext ==
    \/ \E desc \in FileDesc : HandleImageSelectUpTo(desc, MaxBothFiles)
    \/ \E fileId \in reads : ImagePreviewLoaded(fileId)
    \/ AnalyzeImageUpTo(MaxBothRequests)
    \/ \E resp \in {"ok", "http500"} : AnalyzeResponse(resp)
    \/ ClearHistory
    \/ ToggleBatchMode
    \/ \E files \in BothSelections :
           HandleBatchSelectOp(files, MaxBothFiles, files)
    \/ ProcessBatch
    \/ \E k \in 1..Len(runs) : \E resp \in {"ok", "http500"} :
           Response(k, resp)
    \/ \E k \in 1..Len(runs) : DelayElapsed(k)

SpecBoth == Init /\ [][BothNext]_vars

\* SpecBoth where every request settles and every delay elapses: the
\* promises of fetch and of setTimeout are not up to the user.
SpecBothLive ==
    /\ SpecBoth
    /\ WF_vars(\E resp \in {"ok", "http500"} : AnalyzeResponse(resp))
    /\ WF_vars(\E k \in 1..Len(runs) : \E resp \in {"ok", "http500"} :
                   Response(k, resp))
    /\ WF_vars(\E k \in 1..Len(runs) : DelayElapsed(k))

\* The exports, from the states the analyses leave behind: a result on
\* display, a history, or a queue of which some items are completed.
MaxExport == 2

Previews == {Str(""), Str("data:image/png;base64,AA==")}

ExportedResults(name) ==
    {DetectionResult(isReal, confidence, time, preview, name) :
        isReal \in BOOLEAN, confidence \in {7, 93}, time \in {0, 999},
        preview \in Previews}

ExportedItem(id, res) ==
    [NewBatchItem([type |-> "image/png", size |-> MaxSize], id) EXCEPT
        !.status = IF res = <<>> THEN "pending" ELSE "completed",
        !.result = res]

InitExport ==
    /\ selectedImage = <<>>
    /\ imagePreview = <<>>
    /\ isLoading = FALSE
    /\ error = NULL
    /\ isBatchProcessing = FALSE
    /\ runs = <<>>
    /\ loads = {}
    /\ sent = <<>>
    /\ mounted = TRUE
    /\ singleFiles = <<>>
    /\ reads = {}
    /\ analysis = <<>>
    /\ data = <<>>
    /\ derived = <<>>
    /\ download = <<>>
    /\ lastOp = Op("init", 0)
    /\ \/ /\ result \in {<<r>> : r \in ExportedResults(FileName(-1))}
          /\ analysisHistory = <<>>
          /\ batchMode = FALSE
          /\ heap = <<>>
          /\ batchItems = <<>>
       \/ /\ result = <<>>
          /\ \E n \in 1..MaxExport :
                analysisHistory \in
                    {h \in [1..n -> UNION {ExportedResults(FileName(k)) :
                                              k \in 1..n}] :
                        \A k \in 1..n :
                            h[k] \in ExportedResults(FileName(k))}
          /\ batchMode \in BOOLEAN
          /\ heap = <<>>
          /\ batchItems = <<>>
       \/ /\ result = <<>>
          /\ analysisHistory = <<>>
          /\ batchMode = TRUE
          /\ \E n \in 1..MaxExport :
                /\ heap \in
                    {h \in [1..n -> UNION {{ExportedItem(k, res) :
                                res \in Optional(ExportedResults(FileName(k)))}
                                           : k \in 1..n}] :
                        \A k \in 1..n : h[k].file.id = k}
                /\ batchItems = [k \in 1..n |-> k]

ExportNext == ExportAsJSON \/ ExportBatchResults \/ ExportHistoryAsJSON

SpecExport == InitExport /\ [][ExportNext]_vars

----------------------------------------------------------------------------
(* Vocabulary of the properties *)

Terminal == {"completed", "error"}

Refs == 1..Len(heap)

\* The positions of the queue whose entry has the status st.
WithStatus(st) == {k \in 1..Len(batchItems) : heap[batchItems[k]].status = st}

\* A sequence without repetitions.
NoDuplicates(s) == \A a, b \in 1..Len(s) : s[a] = s[b] => a = b

Range(s) == {s[k] : k \in 1..Len(s)}

\* Run k is suspended in its delay and its loop will find no further pending
\* item: the call is about to return.
AboutToReturn(k) ==
    /\ runs[k].pc = "delay"
    /\ NextPending(runs[k].items, runs[k].i + 1) = 0

\* The item whose file run k has posted.
Requested(k) == runs[k].items[runs[k].i]

----------------------------------------------------------------------------
(* C1..C10: lifecycle and scheduling of the batch queue *)

\* C1: the status of a BatchItem changes only along pending -> processing
\* -> completed or pending -> processing -> error: a new item is pending,
\* no item returns to pending, and a completed or error item keeps its status.
C1_StatusLifecycle ==
    [][/\ \A o \in Refs :
             \/ heap'[o].status = heap[o].status
             \/ heap[o].status = "pending" /\ heap'[o].status = "processing"
             \/ heap[o].status = "processing" /\ heap'[o].status \in Terminal
       /\ \A o \in (1..Len(heap')) \ Refs : heap'[o].status = "pending"]_vars

\* C2: when a processBatch call is about to return, the items it has set to
\* processing are exactly the items that were pending when it started, each
\* once, the same items have been set to completed or error, and they are
\* completed or error now.
C2_EachPendingOnce ==
    \A k \in 1..Len(runs) :
        AboutToReturn(k) =>
            /\ NoDuplicates(runs[k].marked)
            /\ Range(runs[k].marked) = runs[k].start
            /\ runs[k].fin = runs[k].marked
            /\ \A o \in runs[k].start : heap[o].status \in Terminal

\* C3: at most one request of a batch run is outstanding and at most one
\* entry of the queue is processing, and a request is dispatched only when no
\* request of a run is outstanding.
C3_OneRequestAtATime ==
    [][/\ Cardinality({k \in 1..Len(runs') : runs'[k].pc = "fetch"}) <= 1
       /\ Cardinality({k \in 1..Len(batchItems') :
                          heap'[batchItems'[k]].status = "processing"}) <= 1
       /\ Len(sent') > Len(sent) =>
              \A k \in 1..Len(runs) : runs[k].pc # "fetch"]_vars

C3_Witness ==
    /\ Len(sent) >= 2
    /\ \E k \in 1..Len(runs) : runs[k].pc = "fetch" /\ runs[k].fin # <<>>
    /\ Cardinality(WithStatus("processing")) = 1
    /\ WithStatus("pending") # {}

\* C4: at most one processBatch call is active, and a call starts only when
\* isBatchProcessing is false.
C4_SingleRun ==
    [][/\ Len(runs') <= 1
       /\ lastOp'.name = "processBatch" => ~isBatchProcessing /\ runs = <<>>]_vars

\* A run is active while the user has toggled the mode and admitted files.
C4_Witness ==
    /\ Len(runs) = 1
    /\ isBatchProcessing
    /\ ~batchMode
    /\ \E k \in 1..Len(batchItems) : batchItems[k] \notin Range(runs[1].items)

\* C5: while isBatchProcessing is true no step empties a non-empty queue.
C5_QueueKeptWhileRunning ==
    [][isBatchProcessing /\ batchItems # <<>> => batchItems' # <<>>]_vars

\* C6: when the request of a run fails, the item whose file was posted
\* becomes error with a message and no other item changes; and after a
\* failed item the run goes on to the next pending item.
C6_FailureIsLocal ==
    [][\A k \in 1..Len(runs) :
          /\ ( /\ lastOp'.name = "response"
               /\ runs[k].pc = "fetch"
               /\ analysisHistory' = analysisHistory )
             => /\ heap'[Requested(k)].status = "error"
                /\ heap'[Requested(k)].error # NULL
                /\ \A o \in Refs \ {Requested(k)} : heap'[o] = heap[o]
          /\ ( /\ lastOp'.name = "delay"
               /\ runs[k].pc = "delay"
               /\ heap[Requested(k)].status = "error"
               /\ NextPending(runs[k].items, runs[k].i + 1) # 0 )
             => /\ mounted'
                /\ heap'[runs[k].items[NextPending(runs[k].items, runs[k].i + 1)]].status
                       = "processing"]_vars

\* C7: a completed or error item is never changed, a request is only ever
\* posted for an item that is pending when the loop visits it, and a visit
\* of an item that is not pending records nothing in the history.
C7_TerminalUntouched ==
    [][/\ \A o \in Refs :
             heap[o].status \in Terminal =>
                 /\ heap'[o].status = heap[o].status
                 /\ heap'[o].result = heap[o].result
                 /\ heap'[o].error = heap[o].error
       /\ Len(sent') > Len(sent) =>
              /\ Len(sent') = Len(sent) + 1
              /\ heap[sent'[Len(sent')]].status = "pending"
       /\ lastOp'.name \in {"processBatch", "delay"} =>
              analysisHistory' = analysisHistory]_vars

\* A run has gone past an item that was completed or error when it started
\* and has posted the next pending one.
C7_Witness ==
    \E k \in 1..Len(runs) :
        /\ runs[k].pc = "fetch"
        /\ \E m \in 1..(runs[k].i - 1) :
               /\ runs[k].items[m] \notin runs[k].start
               /\ heap[runs[k].items[m]].status \in Terminal
               /\ batchItems[m] = runs[k].items[m]

\* C8: a run is suspended in its delay only when a further pending item is
\* left for it to submit.
C8_DelayOnlyBetweenRequests ==
    \A k \in 1..Len(runs) :
        runs[k].pc = "delay" => NextPending(runs[k].items, runs[k].i + 1) # 0

\* C9: an entry of the queue enters processing only when every entry before
\* it in the queue is completed or error.
C9_QueueOrder ==
    [][\A j \in 1..Len(batchItems) :
          ( /\ j <= Len(batchItems')
            /\ batchItems'[j] = batchItems[j]
            /\ heap[batchItems[j]].status # "processing"
            /\ heap'[batchItems[j]].status = "processing" )
          => \A m \in 1..(j - 1) : heap[batchItems[m]].status \in Terminal]_vars

\* C10: right after removeBatchItem the item it took out of the queue is
\* pending, and no run is in progress (removeBatchItem changes neither).
C10_RemoveOnlyPending ==
    lastOp.name = "remove" =>
        /\ heap[lastOp.arg].status = "pending"
        /\ lastOp.arg \notin Range(batchItems)
        /\ ~isBatchProcessing
        /\ runs = <<>>

\* A pending item was removed from a queue that holds a completed one.
C10_Witness ==
    /\ lastOp.name = "remove"
    /\ heap[lastOp.arg].status = "pending"
    /\ WithStatus("completed") # {}

----------------------------------------------------------------------------
(* C11..C20: admission, previews, history and normalization *)

\* C11: a removeBatchItem step shortens the queue by one, takes out the item
\* at the chosen position and no other, keeps the other items in their
\* order and changes no item.
C11_RemoveExactlyOne ==
    [][\A index \in 1..Len(batchItems) :
          RemoveBatchItem(index) =>
              /\ Len(batchItems') = Len(batchItems) - 1
              /\ batchItems[index] \notin Range(batchItems')
              /\ \A k \in 1..(index - 1) : batchItems'[k] = batchItems[k]
              /\ \A k \in index..(Len(batchItems) - 1) :
                     batchItems'[k] = batchItems[k + 1]
              /\ heap' = heap]_vars

\* An item was removed from between two others.
C11_Witness ==
    /\ lastOp.name = "remove"
    /\ \E k \in 1..(Len(batchItems) - 1) :
           batchItems[k] < lastOp.arg /\ lastOp.arg < batchItems[k + 1]

\* The check that admission is specified to make: the media type is an image
\* type and the size is at most 10 MiB.
PassesCheck(f) == f.type # "text/plain" /\ f.size <= 10 * 1024 * 1024

\* An admission has just run; lastOp.arg holds the files it was offered.
Admission(op) == op.name \in {"admit", "reject"}

\* C12: handleBatchSelect appends one new entry per valid file, in selection
\* order, after the existing entries; every new entry is pending, without
\* preview and without result, and its preview load is still to come; the
\* existing entries keep their position and their contents.
C12_AppendInOrder ==
    [][Admission(lastOp') =>
          LET valid == SelectSeq(lastOp'.arg, PassesCheck)
              n == Len(batchItems)
          IN  /\ Len(batchItems') = n + Len(valid)
              /\ \A k \in 1..n :
                     /\ batchItems'[k] = batchItems[k]
                     /\ heap'[batchItems[k]] = heap[batchItems[k]]
              /\ \A k \in 1..Len(valid) :
                     LET ref == batchItems'[n + k]
                     IN  /\ ref \notin Range(batchItems)
                         /\ \A j \in 1..(k - 1) : batchItems'[n + j] # ref
                         /\ heap'[ref].file.type = valid[k].type
                         /\ heap'[ref].file.size = valid[k].size
                         /\ heap'[ref].status = "pending"
                         /\ heap'[ref].preview = NoPreview
                         /\ heap'[ref].result = <<>>
                         /\ ref \in loads']_vars

\* A file was admitted behind the entry that a run in progress is processing.
C12_Witness ==
    /\ lastOp.name = "admit"
    /\ Len(SelectSeq(lastOp.arg, PassesCheck)) = 1
    /\ isBatchProcessing
    /\ Len(batchItems) = 2
    /\ heap[batchItems[1]].status = "processing"
    /\ heap[batchItems[2]].status = "pending"

\* The type and size of the file of a queue entry.
DescOf(item) == [type |-> item.file.type, size |-> item.file.size]

\* C13: handleImageSelect and handleBatchSelect admit a file exactly when its
\* type is an image type and its size is at most 10485760 bytes; a file that
\* is turned away becomes neither the selected image nor a queue entry.
C13_AdmitIffValid ==
    [][/\ lastOp'.name = "select" =>
              IF PassesCheck(lastOp'.arg)
              THEN /\ selectedImage' # <<>>
                   /\ selectedImage'[1] \notin Range(singleFiles)
                   /\ selectedImage'[1].type = lastOp'.arg.type
                   /\ selectedImage'[1].size = lastOp'.arg.size
              ELSE /\ selectedImage' = selectedImage
                   /\ singleFiles' = singleFiles
       /\ Admission(lastOp') =>
              LET files == lastOp'.arg
                  n == Len(batchItems)
              IN  /\ Len(batchItems') - n =
                         Cardinality({k \in 1..Len(files) :
                                         PassesCheck(files[k])})
                  /\ Len(heap') - Len(heap) = Len(batchItems') - n
                  /\ \A k \in (Len(heap) + 1)..Len(heap') :
                         PassesCheck(DescOf(heap'[k]))]_vars

\* A file of exactly 10485760 bytes was offered in single mode and is the
\* selected image.
C13_Witness ==
    /\ lastOp.name = "select"
    /\ lastOp.arg = [type |-> "image/png", size |-> 10485760]
    /\ selectedImage # <<>>
    /\ selectedImage[1].size = 10485760

\* C14: a bulk selection sets the aggregate error exactly when none of its
\* files passes the check, and then admits nothing; otherwise the queue
\* grows by exactly the passing files and the error message is cleared.
C14_AggregateError ==
    [][Admission(lastOp') =>
          LET valid == SelectSeq(lastOp'.arg, PassesCheck)
              n == Len(batchItems)
          IN  /\ (error' = MsgNoValid) <=> (Len(valid) = 0)
              /\ Len(valid) = 0 => batchItems' = batchItems
              /\ Len(valid) > 0 =>
                     /\ error' = NULL
                     /\ SubSeq(batchItems', 1, n) = batchItems
                     /\ [k \in 1..(Len(batchItems') - n) |->
                            DescOf(heap'[batchItems'[n + k]])] = valid]_vars

\* Three files were offered to an empty queue, one of them over 10 MiB: the
\* queue holds the two others and there is no message.
C14_Witness ==
    /\ lastOp.name = "admit"
    /\ Len(lastOp.arg) = 3
    /\ Cardinality({k \in 1..3 : lastOp.arg[k].size > 10 * 1024 * 1024}) = 1
    /\ \A k \in 1..3 : lastOp.arg[k].type = "image/png"
    /\ Len(batchItems) = 2
    /\ error = NULL

\* C15: when handleImageSelect turns the file away, or handleBatchSelect
\* finds no valid file, only the error message changes: the selected image,
\* its preview, the result, the queue and its entries and the history stay
\* as they were and no preview load is started.
C15_RejectionFrame ==
    [][(\/ lastOp'.name = "select" /\ ~PassesCheck(lastOp'.arg)
        \/ /\ Admission(lastOp')
           /\ \A k \in 1..Len(lastOp'.arg) : ~PassesCheck(lastOp'.arg[k]))
       => /\ selectedImage' = selectedImage
          /\ imagePreview' = imagePreview
          /\ result' = result
          /\ batchItems' = batchItems
          /\ heap' = heap
          /\ analysisHistory' = analysisHistory
          /\ reads' = reads
          /\ loads' = loads
          /\ singleFiles' = singleFiles
          /\ error' \in {MsgNotImage, MsgTooLarge, MsgNoValid}]_vars

\* A file that is too large was offered while an accepted image was selected
\* and its preview was still loading.
C15_Witness ==
    /\ lastOp.name = "select"
    /\ ~PassesCheck(lastOp.arg)
    /\ selectedImage # <<>>
    /\ reads # {}
    /\ error = MsgTooLarge

\* The File object of a request: a reference into heap for a batch file and
\* a number below 0 for a file of single mode.
FileOf(id) == IF id > 0 THEN heap[id].file ELSE singleFiles[0 - id]

\* C16: every request sent to /api/detect, by analyzeImage or by
\* processBatch, carries a file that passes the type and size check.
C16_OnlyValidFilesSent ==
    \A k \in 1..Len(sent) :
        PassesCheck([type |-> FileOf(sent[k]).type,
                     size |-> FileOf(sent[k]).size])

\* A request of single mode and a request of a batch run have been sent.
C16_Witness ==
    /\ \E k \in 1..Len(sent) : sent[k] < 0
    /\ \E k \in 1..Len(sent) : sent[k] > 0

\* C17: a preview load that resolves stores the preview on the entry of its
\* own file if that entry is in the queue, and changes no other entry and
\* not the queue; once no load is outstanding every entry of the queue has
\* the preview of its own file.
C17_PreviewOnOwnEntry ==
    /\ [][lastOp'.name = "preview" =>
              /\ batchItems' = batchItems
              /\ \A ref \in 1..Len(heap) :
                     IF ref = lastOp'.arg /\ ref \in Range(batchItems)
                     THEN heap'[ref] =
                              [heap[ref] EXCEPT !.preview = DataURL(heap[ref].file)]
                     ELSE heap'[ref] = heap[ref]]_vars
    /\ [](loads = {} =>
              \A k \in 1..Len(batchItems) :
                  heap[batchItems[k]].preview =
                      DataURL(heap[batchItems[k]].file))

\* The load of the file behind a removed first entry has resolved: the entry
\* that moved to the front has the preview of its own file.
C17_Witness ==
    /\ lastOp.name = "preview"
    /\ Len(batchItems) >= 1
    /\ batchItems[1] = lastOp.arg
    /\ \E ref \in 1..(lastOp.arg - 1) : ref \notin Range(batchItems)
    /\ heap[lastOp.arg].preview = lastOp.arg

\* The files of the requests that have not settled.
InFlight ==
    {analysis[k].file.id : k \in 1..Len(analysis)} \cup
    {heap[Requested(k)].file.id : k \in {m \in 1..Len(runs) :
                                            runs[m].pc = "fetch"}}

\* A request has just settled with a parsed response, or without one.
Succeeded(op) == op.name \in {"analyzed", "response"} /\ op.arg = "ok"
Failed(op) == op.name \in {"analyzed", "response"} /\ op.arg # "ok"

\* C18: a successful analysis puts its result in front of the earlier
\* entries of the history, which keep their order; clearHistory empties the
\* history and no other step changes it.  The history is therefore the
\* successful results since the last clearHistory, the most recent first.
C18_MostRecentFirst ==
    [][IF lastOp'.name = "clearHistory"
       THEN analysisHistory' = <<>>
       ELSE IF Succeeded(lastOp')
       THEN /\ Len(analysisHistory') = Len(analysisHistory) + 1
            /\ Tail(analysisHistory') = analysisHistory
            /\ Head(analysisHistory').file \in InFlight
       ELSE analysisHistory' = analysisHistory]_vars

\* C19: a successful analysis, single or batch, makes the history longer by
\* one entry, a failed one leaves it as it is, and no step but clearHistory
\* takes an entry away: the earlier history is the tail end of the new one.
C19_OneEntryPerSuccess ==
    [][/\ Succeeded(lastOp') =>
              Len(analysisHistory') = Len(analysisHistory) + 1
       /\ Failed(lastOp') => analysisHistory' = analysisHistory
       /\ lastOp'.name # "clearHistory" =>
              /\ Len(analysisHistory') >= Len(analysisHistory)
              /\ SubSeq(analysisHistory',
                        Len(analysisHistory') - Len(analysisHistory) + 1,
                        Len(analysisHistory')) = analysisHistory]_vars

\* C20: for a prediction that is not "real", a confidence c and no
\* probabilities, the new result has isReal = false, fake = c and
\* real = 1 - c, and its riskLevel is low when c > 0.85.
C20_FakeConfidence ==
    \A k \in 1..Len(derived) :
        LET d == data[1]
            r == derived[k]
        IN  (/\ d.prediction # <<>>
             /\ ToLowerCase(d.prediction[1]) # "real"
             /\ d.confidence # <<>>
             /\ d.probabilities = <<>>)
            => /\ r.isReal = FALSE
               /\ r.probabilities.fake = d.confidence[1]
               /\ r.probabilities.real = 100 - d.confidence[1]
               /\ d.confidence[1] > 85 => r.riskLevel = "low"

----------------------------------------------------------------------------
(* C21..C30: normalization, failures, termination and export *)

\* The probabilities that a response supplies do not contradict each other:
\* when it has both, they add up to 1.
Consistent(d) ==
    (ProbabilityOf(d, "fake") # <<>> /\ ProbabilityOf(d, "real") # <<>>)
        => ProbabilityOf(d, "fake")[1] + ProbabilityOf(d, "real")[1] = 100

\* C21: whatever probabilities the response supplies (both, one or none),
\* the probabilities of the new result add up to 1, in single and in batch
\* mode.
C21_ProbabilitiesSumToOne ==
    \A k \in 1..Len(derived) :
        Consistent(data[1]) =>
            derived[k].probabilities.real + derived[k].probabilities.fake = 100

\* C22: for a response without a probabilities object, with or without a
\* confidence, the derived probabilities add up to 1.
C22_DerivedSumToOne ==
    \A k \in 1..Len(derived) :
        data[1].probabilities = <<>> =>
            derived[k].probabilities.real + derived[k].probabilities.fake = 100

\* Both analyzers have derived the probabilities from a response that has a
\* confidence below one half and no probabilities object.
C22_Witness ==
    /\ Len(derived) = 2
    /\ data[1].probabilities = <<>>
    /\ data[1].confidence = <<7>>
    /\ derived[1].probabilities = [fake |-> 93, real |-> 7]

\* C23: confidence is the confidence of the response, else its real
\* probability, else 0.5; fake is the fake probability of the response,
\* else 1 - confidence; real is the real probability of the response, else
\* confidence.  Single and batch analysis derive the same values.
C23_Fallbacks ==
    \A k \in 1..Len(derived) :
        LET d == data[1]
            hasFake == d.probabilities # <<>> /\ d.probabilities[1].fake # <<>>
            hasReal == d.probabilities # <<>> /\ d.probabilities[1].real # <<>>
            c == IF d.confidence # <<>> THEN d.confidence[1]
                 ELSE IF hasReal THEN d.probabilities[1].real[1]
                 ELSE 50
        IN  /\ derived[k].confidence = c
            /\ derived[k].probabilities.fake =
                   IF hasFake THEN d.probabilities[1].fake[1] ELSE 100 - c
            /\ derived[k].probabilities.real =
                   IF hasReal THEN d.probabilities[1].real[1] ELSE c
            /\ derived[k] = derived[1]

\* Both analyzers have taken the confidence from the real probability of a
\* response without a confidence and without a fake probability.
C23_Witness ==
    /\ Len(derived) = 2
    /\ data[1].confidence = <<>>
    /\ data[1].probabilities = <<[fake |-> <<>>, real |-> <<93>>]>>
    /\ derived[2].confidence = 93
    /\ derived[2].probabilities = [fake |-> 7, real |-> 93]

\* C24: the riskLevel of a result is low exactly for a confidence above
\* 0.85, medium for one above 0.6 and up to 0.85, and high for one up to
\* 0.6; 0.85 itself gives medium and 0.6 itself gives high.
C24_RiskTiers ==
    \A k \in 1..Len(derived) :
        LET c == derived[k].confidence
        IN  /\ derived[k].riskLevel = "low" <=> c > 85
            /\ derived[k].riskLevel = "medium" <=> (60 < c /\ c <= 85)
            /\ derived[k].riskLevel = "high" <=> c <= 60

\* A result with a confidence of exactly 0.85 has the riskLevel medium.
C24_Witness ==
    /\ derived # <<>>
    /\ derived[1].confidence = 85
    /\ derived[1].riskLevel = "medium"

\* C25: right after a single analysis has failed the error message is set
\* and there is no result, also when the result of an earlier analysis was
\* on display when the failing call began.
C25_PureFailureState ==
    (lastOp.name = "analyzed" /\ lastOp.arg # "ok")
        => /\ error = ErrMessage(lastOp.arg)
           /\ result = <<>>

\* C26: a response with the status 500 gives a failure with the status in
\* its message and no result: in single mode error is set, result and
\* history are left alone; in batch mode the entry whose request it was
\* becomes error with that message and without a result, and the history is
\* left alone.
C26_HttpFailure ==
    [][/\ (lastOp'.name = "analyzed" /\ lastOp'.arg = "http500") =>
              /\ error' = "Server error: 500"
              /\ result' = result
              /\ analysisHistory' = analysisHistory
       /\ (lastOp'.name = "response" /\ lastOp'.arg = "http500") =>
              /\ analysisHistory' = analysisHistory
              /\ \E k \in 1..Len(runs) :
                     /\ runs[k].pc = "fetch"
                     /\ runs'[k].pc # "fetch"
                     /\ heap'[Requested(k)].status = "error"
                     /\ heap'[Requested(k)].error = "Server error: 500"
                     /\ heap'[Requested(k)].result = <<>>]_vars

\* C27: a request goes out only when analyzeImage is called with a selected
\* image and when a run takes up its next pending item, one request each
\* time and for that file; no other step sends a request, the settling of a
\* request that failed included, and no batch file is posted twice.
C27_OneRequestPerAttempt ==
    [][/\ IF lastOp'.name = "analyze" /\ lastOp'.arg # <<>>
          THEN sent' = Append(sent, lastOp'.arg[1].id)
          ELSE IF /\ lastOp'.name \in {"processBatch", "delay"}
                  /\ \E k \in 1..Len(runs') : runs'[k].pc = "fetch"
          THEN \E k \in 1..Len(runs') :
                   /\ runs'[k].pc = "fetch"
                   /\ sent' = Append(sent,
                                     heap[runs'[k].items[runs'[k].i]].file.id)
          ELSE sent' = sent
       /\ \A a, b \in 1..Len(sent') :
              (sent'[a] = sent'[b] /\ sent'[a] > 0) => a = b]_vars

\* A single analysis and a batch entry have both failed, the second just
\* now, and each has sent its one request.
C27_Witness ==
    /\ Failed(lastOp)
    /\ Len(sent) = 2
    /\ \E k \in 1..2 : sent[k] < 0
    /\ \E k \in 1..2 : sent[k] > 0 /\ heap[sent[k]].status = "error"
    /\ analysis = <<>>
    /\ runs = <<>> \/ \A k \in 1..Len(runs) : runs[k].pc # "fetch"

\* C28: when every request settles and every delay elapses, a batch run
\* that has started ends with isBatchProcessing false and a single analysis
\* that has started ends with isLoading false, whatever the user does in
\* between; the buttons that start the next one are enabled again then.
C28_RunsAndAnalysesEnd ==
    /\ isBatchProcessing ~> ~isBatchProcessing
    /\ isLoading ~> ~isLoading

\* C29: every entry of the queue is completed exactly when it has a result
\* and error exactly when it has an error message; a pending or processing
\* entry has neither.
C29_EntryConsistent ==
    \A k \in 1..Len(batchItems) :
        LET item == heap[batchItems[k]]
        IN  /\ item.status = "completed" <=> item.result # <<>>
            /\ item.status = "error" <=> item.error # NULL

\* The queue holds a completed entry, an error entry, a processing entry
\* and a pending entry.
C29_Witness ==
    \A st \in {"completed", "error", "processing", "pending"} :
        WithStatus(st) # {}

\* JSON.parse(text): the value a reader of the document gets.
RECURSIVE Parse(_)
Parse(text) ==
    CASE text.json = "object" ->
           Obj([key \in DOMAIN text.members |-> Parse(text.members[key])])
      [] text.json = "array" ->
           Arr([k \in 1..Len(text.elements) |-> Parse(text.elements[k])])
      [] text.json = "string" -> Str(text.chars)
      [] text.json = "number" -> Num(text.digits)
      [] text.json = "true" -> Bool(TRUE)
      [] text.json = "false" -> Bool(FALSE)
      [] OTHER -> Null

\* doc is the record r without its imagePreview, the timestamp as its
\* ISO-8601 string.
Exported(r, doc) ==
    /\ doc.type = "object"
    /\ "imagePreview" \notin DOMAIN doc.fields
    /\ DOMAIN doc.fields = DOMAIN r.fields \ {"imagePreview"}
    /\ doc.fields.timestamp.type = "string"
    /\ doc.fields.timestamp.value = ToISOString(r.fields.timestamp)
    /\ \A key \in DOMAIN doc.fields \ {"timestamp"} :
           doc.fields[key] = r.fields[key]

\* C30: every export (of the result on display, of the batch results, of the
\* history) writes a document that parses to the exported records in order,
\* each without an imagePreview field, with the timestamp as its ISO-8601
\* string and every other field equal to the record's; the export changes
\* neither the result, nor the queue and its items, nor the history.
C30_ExportRoundTrip ==
    [][LET doc == Parse(download'[1])
       IN  /\ lastOp'.name = "exportAsJSON" =>
                  /\ result # <<>>
                  /\ Exported(result[1], doc)
           /\ lastOp'.name = "exportBatchResults" =>
                  /\ doc.type = "array"
                  /\ Len(doc.items) = Len(WithResult)
                  /\ \A k \in 1..Len(WithResult) :
                         Exported(heap[WithResult[k]].result[1], doc.items[k])
           /\ lastOp'.name = "exportHistoryAsJSON" =>
                  /\ doc.type = "array"
                  /\ Len(doc.items) = Len(analysisHistory)
                  /\ \A k \in 1..Len(analysisHistory) :
                         Exported(analysisHistory[k], doc.items[k])
           /\ lastOp'.name \in {"exportAsJSON", "exportBatchResults",
                                "exportHistoryAsJSON"} =>
                  UNCHANGED <<result, batchItems, heap, analysisHistory>>]_vars

\* The batch results of a queue of two, one of them still pending, have been
\* exported: the document holds the one result.
C30_Witness ==
    /\ lastOp.name = "exportBatchResults"
    /\ Len(batchItems) = 2
    /\ Len(WithResult) = 1
    /\ Len(Parse(download[1]).items) = 1
    /\ Parse(download[1]).items[1].fields.timestamp.type = "string"

----------------------------------------------------------------------------
(* C31..C35: ownership of results and previews, the run flag, late entries *)

\* C31: a result is attached only to the entry whose own file the request
\* carried, and it names that file; an error message is attached only to
\* the entry whose request failed.
C31_ResultOfOwnFile ==
    [][\A ref \in Refs :
          /\ heap'[ref].result # heap[ref].result =>
                 /\ heap'[ref].result[1].imageName = heap[ref].file.name
                 /\ heap'[ref].result[1].file = heap[ref].file.id
                 /\ \E k \in 1..Len(runs) :
                        /\ runs[k].pc = "fetch"
                        /\ Requested(k) = ref
                        /\ runs'[k].pc = "delay"
                 /\ lastOp' = Op("response", "ok")
          /\ heap'[ref].error # heap[ref].error =>
                 /\ \E k \in 1..Len(runs) :
                        /\ runs[k].pc = "fetch"
                        /\ Requested(k) = ref
                        /\ runs'[k].pc = "delay"
                 /\ lastOp'.name = "response"
                 /\ lastOp'.arg # "ok"]_vars

\* The result on display, if any, is the result of the selected image.
ResultOfSelected ==
    result # <<>> =>
        /\ selectedImage # <<>>
        /\ result[1].file = selectedImage[1].id
        /\ result[1].imageName = selectedImage[1].name

\* C32: a response of analyzeImage sets the result only for the image that
\* is still selected, and no step other than loading an item of the history
\* leaves a result on display that is not the result of the selected image.
C32_ResultOfSelectedImage ==
    [][/\ (analysis # <<>> /\ analysis' = <<>> /\ result' # result) =>
              /\ selectedImage' # <<>>
              /\ analysis[1].file.id = selectedImage'[1].id
       /\ (ResultOfSelected /\ lastOp'.name # "loadHistoryItem") =>
              ResultOfSelected']_vars

\* The preview on display is the preview of the selected image, and there
\* is none when no image is selected.
PreviewOfSelected ==
    IF selectedImage = <<>>
    THEN imagePreview = <<>>
    ELSE imagePreview = <<DataURL(selectedImage[1])>>

\* C33: in single mode, when the last of the started preview loads has
\* resolved, the preview on display is the preview of the selected image, or
\* none when no image is selected.
C33_PreviewOfSelectedImage ==
    (~batchMode /\ reads = {} /\ lastOp.name = "read") => PreviewOfSelected

AdmittedDuring(k) ==
    {ref \in Range(batchItems) : ref \notin Range(runs[k].items)}

\* C35: an entry admitted while a run is in progress stays pending, with no
\* request issued for its file, as long as that run has not returned; and a
\* processBatch call begins with the first entry of the queue that is
\* pending, the entries it found pending being the pending ones of the queue.
C35_LateEntriesUntouched ==
    /\ \A k \in 1..Len(runs) :
           \A ref \in AdmittedDuring(k) :
               /\ heap[ref].status = "pending"
               /\ heap[ref].result = <<>>
               /\ heap[ref].error = NULL
               /\ heap[ref].file.id \notin Range(sent)
    /\ (lastOp.name = "processBatch" /\ runs # <<>>) =>
           LET run == runs[Len(runs)]
           IN  /\ run.start \subseteq Range(batchItems)
               /\ \A p \in 1..Len(batchItems) :
                      p < run.i => batchItems[p] \notin run.start
               /\ batchItems[run.i] \in run.start
               /\ heap[batchItems[run.i]].status = "processing"
               /\ sent[Len(sent)] = heap[batchItems[run.i]].file.id
               /\ \A p \in 1..Len(batchItems) :
                      p > run.i =>
                          (batchItems[p] \in run.start <=>
                               heap[batchItems[p]].status = "pending")

====
